---- MODULE Spec2Model ----
(***************************************************************************)
(* esp-pbuf: an ownership layer over lwIP's reference-counted pbuf.        *)
(*                                                                         *)
(* The state is the external heap of pbuf segments (sys::pbuf: ref_, len,  *)
(* tot_len, payload and the payload memory), the owning handles of the     *)
(* program (PbufPtr, and the wrappers PbufRef, PbufMut, PbufUninit that     *)
(* hold one PbufPtr each), and the counted units held through raw pointers *)
(* (by foreign code, or given away by PbufPtr::into_raw).                  *)
(***************************************************************************)
EXTENDS Integers, Sequences, FiniteSets, TLC

\* ------------------------------------------------------------------ bounds
NSeg == 1
MaxHandles == 3
MaxRaw == 2

Segs == 1..NSeg

\* ------------------------------------------------------- program constants
\* u16::MAX, the range of u16::try_from (lib.rs:134) and of `as u16` (lib.rs:171)
U16Max == 65535

\* ------------------------------------------------------------- input sets
\* requested lengths of allocate (usize)
AllocLens == {0, 64, 65535, 65536}
\* Layouts <<size, align>> (Layout::align is a power of two)
Layouts ==
    { <<0, 4>>, <<3, 2>>, <<3, 4>>, <<65531, 4>>, <<65534, 1>>,
      <<65534, 2>>, <<65535, 1>> }
\* payload addresses the external allocator may return (every residue mod 4)
PayloadAddrs == {4096, 4097, 4098, 4099}
\* what uninitialised memory holds: no byte value (bytes are 0..255)
Uninit == -1

VARIABLES heap, handle, raw, last, halted

vars == <<heap, handle, raw, last, halted>>

\* ------------------------------------------------- payload memory (runs)
\* Payload memory is a sequence of runs <<n, v>>: n bytes of value v.  No run
\* is empty and adjacent runs differ in value, so equal memories are equal
\* sequences.
Fill(n, v) == IF n = 0 THEN <<>> ELSE << <<n, v>> >>

Cat(a, b) ==
    IF a = <<>> THEN b
    ELSE IF b = <<>> THEN a
    ELSE IF a[Len(a)][2] = b[1][2]
         THEN SubSeq(a, 1, Len(a) - 1)
              \o << <<a[Len(a)][1] + b[1][1], b[1][2]>> >>
              \o Tail(b)
         ELSE a \o b

RECURSIVE ByteLen(_)
ByteLen(d) == IF d = <<>> THEN 0 ELSE d[1][1] + ByteLen(Tail(d))

RECURSIVE TakeBytes(_, _)
TakeBytes(d, n) ==
    IF n = 0 \/ d = <<>> THEN <<>>
    ELSE IF d[1][1] <= n
         THEN Cat(<< d[1] >>, TakeBytes(Tail(d), n - d[1][1]))
         ELSE << <<n, d[1][2]>> >>

RECURSIVE DropBytes(_, _)
DropBytes(d, n) ==
    IF n = 0 \/ d = <<>> THEN d
    ELSE IF d[1][1] <= n
         THEN DropBytes(Tail(d), n - d[1][1])
         ELSE << <<d[1][1] - n, d[1][2]>> >> \o Tail(d)

\* slices handed to copied_from_slice
Slices ==
    { <<>>,
      << <<1, 7>>, <<63, 9>> >>,
      << <<3, 5>> >> }

\* ------------------------------------------------------------ the state
\* A segment that was never allocated; a freed one keeps only st and frees.
NoSeg ==
    [st |-> "unalloc", ref |-> 0, len |-> 0, tot_len |-> 0, payload |-> 0,
     data |-> <<>>, frees |-> 0, uaf |-> FALSE]

\* The owning handles: PbufPtr, and the wrappers that hold one PbufPtr each
\* (PbufRef, PbufMut, PbufUninit).  Handles of one kind to one segment are
\* interchangeable, so the state counts them.
Kinds == {"ptr", "ref", "mut", "uninit"}
\* A handle moved into a try_from_ptr call that has read ref_ and not yet
\* returned: "chk1" when it read 1, "chkN" when it read another value.
InFlight == {"chk1", "chkN"}
NoHandles == [k \in Kinds \cup InFlight |-> 0]

\* What the last operation was, what it returned and which calls it made to
\* the external primitive, in order; adjust is the offset allocate_layout
\* computed (0 elsewhere).
Op(op, res, seg, calls, req, align, src) ==
    [op |-> op, res |-> res, seg |-> seg, calls |-> calls,
     req |-> req, align |-> align, src |-> src, adjust |-> 0]

Init ==
    /\ heap = [s \in Segs |-> NoSeg]
    /\ handle = [s \in Segs |-> NoHandles]
    /\ raw = [s \in Segs |-> 0]
    /\ last = Op("init", "", 0, <<>>, 0, 0, <<>>)
    /\ halted = FALSE

\* The live handles of segment s, and of the program.
LiveOf(hd, s) ==
    hd[s]["ptr"] + hd[s]["ref"] + hd[s]["mut"] + hd[s]["uninit"]
      + hd[s]["chk1"] + hd[s]["chkN"]
Live(s) == LiveOf(handle, s)

RECURSIVE LiveIn(_)
LiveIn(S) ==
    IF S = {} THEN 0
    ELSE LET s == CHOOSE x \in S : TRUE IN Live(s) + LiveIn(S \ {s})

\* Room for one more handle.
CanHold == LiveIn(Segs) < MaxHandles

\* hd with a handle of kind k to s constructed, destroyed, or rewrapped as j.
Made(hd, s, k) == [hd EXCEPT ![s][k] = @ + 1]
Gone(hd, s, k) == [hd EXCEPT ![s][k] = @ - 1]
Rewrapped(hd, s, k, j) == Made(Gone(hd, s, k), s, j)

\* The address the external allocator hands out next (0 is null).
FreshSegs == {s \in Segs : heap[s].st = "unalloc"}
FreshSeg == CHOOSE s \in FreshSegs : \A t \in FreshSegs : s <= t
AllocReturns == {0} \cup (IF FreshSegs = {} THEN {} ELSE {FreshSeg})
\* ... and where its payload starts
AllocAddrs(ret) == IF ret = 0 THEN {0} ELSE PayloadAddrs

\* ------------------------------------------- the external primitive (lwIP)
\* pbuf_alloc returning segment s: one counted unit, len = tot_len = length,
\* payload memory uninitialised.
pbuf_alloc(hp, s, length, addr) ==
    [hp EXCEPT ![s] = [st |-> "live", ref |-> 1, len |-> length,
                       tot_len |-> length, payload |-> addr,
                       data |-> Fill(length, Uninit), frees |-> 0,
                       uaf |-> FALSE]]

\* pbuf_ref: increment the reference count.
pbuf_ref(hp, s) ==
    IF hp[s].st # "live" THEN [hp EXCEPT ![s].uaf = TRUE]
    ELSE [hp EXCEPT ![s].ref = @ + 1]

\* pbuf_free: decrement the reference count and free the segment at zero.
pbuf_free(hp, s) ==
    IF hp[s].st # "live"
    THEN [hp EXCEPT ![s].uaf = TRUE, ![s].frees = @ + 1]
    ELSE IF hp[s].ref - 1 = 0
         THEN [hp EXCEPT ![s] = [NoSeg EXCEPT !.st = "freed",
                                               !.frees = hp[s].frees + 1]]
         ELSE [hp EXCEPT ![s].ref = @ - 1]

\* pbuf_remove_header: 0 on success, 1 when the decrement does not fit u16 or
\* is larger than the segment's len.
remove_header_status(hp, s, dec) ==
    IF dec > U16Max THEN 1
    ELSE IF dec = 0 THEN 0
    ELSE IF dec > hp[s].len THEN 1
    ELSE 0

\* pbuf_remove_header: on success the payload start advances by dec and the
\* lengths shrink by dec.
pbuf_remove_header(hp, s, dec) ==
    IF remove_header_status(hp, s, dec) # 0 \/ dec = 0 THEN hp
    ELSE [hp EXCEPT ![s].payload = @ + dec,
                    ![s].len = @ - dec,
                    ![s].tot_len = @ - dec,
                    ![s].data = DropBytes(@, dec)]

\* pbuf_realloc: shrink the reported length in place; never grows.
pbuf_realloc(hp, s, new_len) ==
    IF new_len >= hp[s].tot_len THEN hp
    ELSE [hp EXCEPT ![s].len = new_len,
                    ![s].tot_len = new_len,
                    ![s].data = TakeBytes(@, new_len)]

\* ------------------------------------------------------------- raw.rs
\* Pbuf::len, Pbuf::bytes
PbufLen(s) == heap[s].len
BytesOf(hp, s) == TakeBytes(hp[s].data, hp[s].len)
PbufBytes(s) == BytesOf(heap, s)

\* a drop that releases the unit twice
DropPtr_twice(hp, s) == pbuf_free(pbuf_free(hp, s), s)

\* impl Drop for PbufPtr, as a heap transformer: pbuf_free on the pointer.
DropPtr(hp, s) == pbuf_free(hp, s)

\* PbufPtr::new: take over a counted unit held through a raw pointer; the
\* count is not touched.
new(s) ==
    /\ ~halted
    /\ raw[s] > 0
    /\ CanHold
    /\ handle' = Made(handle, s, "ptr")
    /\ raw' = [raw EXCEPT ![s] = @ - 1]
    /\ last' = Op("new", "Ok", s, <<>>, 0, 0, <<>>)
    /\ UNCHANGED <<heap, halted>>

\* PbufPtr::new_ref on a valid pointer to segment s: pbuf_ref, then a handle.
NewRef(op, s) ==
    /\ CanHold
    /\ heap' = pbuf_ref(heap, s)
    /\ handle' = Made(handle, s, "ptr")
    /\ last' = Op(op, "Ok", s, <<"pbuf_ref">>, 0, 0, <<>>)
    /\ UNCHANGED <<raw, halted>>

\* PbufPtr::ref_from_ffi: new_ref on a pointer lent by foreign code, which
\* keeps its own unit.
ref_from_ffi(s) ==
    /\ ~halted
    /\ raw[s] > 0
    /\ NewRef("ref_from_ffi", s)

\* new_ref that also accepts the pointer of a Unique Access
new_ref_of_unique(s) ==
    /\ ~halted
    /\ handle[s]["ref"] > 0 \/ handle[s]["mut"] > 0
    /\ NewRef("new_ref", s)

\* PbufPtr::new_ref on the pointer borrowed from a Shared Access through its
\* Deref to &Pbuf.
new_ref(s) ==
    /\ ~halted
    /\ handle[s]["ref"] > 0
    /\ NewRef("new_ref", s)

\* clone that can also duplicate a handle already moved into try_from_ptr
clone_of_moved(s) ==
    /\ ~halted
    /\ handle[s]["ptr"] > 0 \/ handle[s]["chk1"] > 0
    /\ NewRef("clone", s)

\* clone that forgets to count the new handle
clone_uncounted(s) ==
    /\ ~halted
    /\ handle[s]["ptr"] > 0
    /\ CanHold
    /\ handle' = Made(handle, s, "ptr")
    /\ last' = Op("clone", "Ok", s, <<>>, 0, 0, <<>>)
    /\ UNCHANGED <<heap, raw, halted>>

\* impl Clone for PbufPtr: new_ref on the handle's own pointer.
clone(s) ==
    /\ ~halted
    /\ handle[s]["ptr"] > 0
    /\ NewRef("clone", s)

\* into_raw that lets the handle's destructor run
into_raw_releasing(s) ==
    /\ ~halted
    /\ handle[s]["ptr"] > 0
    /\ raw[s] < MaxRaw
    /\ heap' = DropPtr(heap, s)
    /\ handle' = Gone(handle, s, "ptr")
    /\ raw' = [raw EXCEPT ![s] = @ + 1]
    /\ last' = Op("into_raw", "Ok", s, <<"pbuf_free">>, 0, 0, <<>>)
    /\ UNCHANGED halted

\* PbufPtr::into_raw: forget the handle, keep its counted unit in the raw
\* pointer.
into_raw(s) ==
    /\ ~halted
    /\ handle[s]["ptr"] > 0
    /\ raw[s] < MaxRaw
    /\ handle' = Gone(handle, s, "ptr")
    /\ raw' = [raw EXCEPT ![s] = @ + 1]
    /\ last' = Op("into_raw", "Ok", s, <<>>, 0, 0, <<>>)
    /\ UNCHANGED <<heap, halted>>

\* drop that forgets the handle without releasing its unit
drop_leaks(s, k) ==
    /\ ~halted
    /\ handle[s][k] > 0
    /\ handle' = Gone(handle, s, k)
    /\ last' = Op("drop", k, s, <<>>, 0, 0, <<>>)
    /\ UNCHANGED <<heap, raw, halted>>

\* impl Drop for PbufPtr, for a bare handle (k = "ptr") and for a wrapper
\* that owns one.
drop(s, k) ==
    /\ ~halted
    /\ handle[s][k] > 0
    /\ heap' = DropPtr(heap, s)
    /\ handle' = Gone(handle, s, k)
    /\ last' = Op("drop", k, s, <<"pbuf_free">>, 0, 0, <<>>)
    /\ UNCHANGED <<raw, halted>>

\* ------------------------------------------------------------- lib.rs
\* from_ptr that also takes the handle out of a PbufUninit
from_ptr_of_uninit(s) ==
    /\ ~halted
    /\ \E k \in {"ptr", "uninit"} :
         /\ handle[s][k] > 0
         /\ handle' = Rewrapped(handle, s, k, "ref")
    /\ last' = Op("from_ptr", "PbufRef", s, <<>>, 0, 0, <<>>)
    /\ UNCHANGED <<heap, raw, halted>>

\* PbufRef::from_ptr: wrap a handle as Shared Access, unconditionally.
from_ptr(s) ==
    /\ ~halted
    /\ handle[s]["ptr"] > 0
    /\ handle' = Rewrapped(handle, s, "ptr", "ref")
    /\ last' = Op("from_ptr", "PbufRef", s, <<>>, 0, 0, <<>>)
    /\ UNCHANGED <<heap, raw, halted>>

\* try_from_ptr that releases the handle when it refuses Unique Access
try_from_ptr_releasing(s) ==
    /\ ~halted
    /\ handle[s]["ptr"] > 0
    /\ IF heap[s].ref = 1
       THEN /\ heap' = heap
            /\ handle' = Rewrapped(handle, s, "ptr", "mut")
            /\ last' = Op("try_from_ptr", "Ok", s, <<>>, 0, 0, <<>>)
       ELSE /\ heap' = DropPtr(heap, s)
            /\ handle' = Gone(handle, s, "ptr")
            /\ last' = Op("try_from_ptr", "Err", s, <<"pbuf_free">>,
                          0, 0, <<>>)
    /\ UNCHANGED <<raw, halted>>

\* try_from_ptr that only checks the segment is referenced at all
try_from_ptr_nonzero(s) ==
    /\ ~halted
    /\ handle[s]["ptr"] > 0
    /\ LET res == IF heap[s].ref >= 1 THEN "mut" ELSE "ref" IN
       /\ handle' = Rewrapped(handle, s, "ptr", res)
       /\ last' = Op("try_from_ptr", IF res = "mut" THEN "Ok" ELSE "Err",
                     s, <<>>, 0, 0, <<>>)
    /\ UNCHANGED <<heap, raw, halted>>

\* PbufMut::try_from_ptr: Ok(PbufMut) when ref_ == 1, else Err(PbufRef).
try_from_ptr(s) ==
    /\ ~halted
    /\ handle[s]["ptr"] > 0
    /\ LET res == IF heap[s].ref = 1 THEN "mut" ELSE "ref" IN
       /\ handle' = Rewrapped(handle, s, "ptr", res)
       /\ last' = Op("try_from_ptr", IF res = "mut" THEN "Ok" ELSE "Err",
                     s, <<>>, 0, 0, <<>>)
    /\ UNCHANGED <<heap, raw, halted>>

\* a range check that is off by one
FitsU16_off_by_one(n) == n <= U16Max + 1

\* u16::try_from(length) succeeds
FitsU16(n) == n <= U16Max

\* `as u16`
AsU16(n) == n % (U16Max + 1)

\* an offset that skips a whole alignment when the address is aligned
align_offset_full(addr, align) == align - (addr % align)

\* the distance to the aligned address below instead of above
align_offset_down(addr, align) == addr % align

\* <*mut u8>::align_offset
align_offset(addr, align) == (align - (addr % align)) % align

\* allocate reporting a null return as the wrong error
allocate_result_wrong_error(length, ret) ==
    IF ~(length <= U16Max) \/ ret = 0 THEN "LengthLargerThanU16" ELSE "Ok"

\* PbufUninit::allocate: its result, for the value ret that pbuf_alloc
\* returns (0 is null) ...
allocate_result(length, ret) ==
    IF ~FitsU16(length) THEN "LengthLargerThanU16"
    ELSE IF ret = 0 THEN "AllocationFailed"
    ELSE "Ok"

\* the allocator called before the length is validated
allocate_calls_eager(length) == <<"pbuf_alloc">>

\* ... the calls it makes to the external primitive ...
allocate_calls(length) ==
    IF ~FitsU16(length) THEN <<>> ELSE <<"pbuf_alloc">>

\* ... and the heap it leaves.
allocate_heap(hp, length, ret, addr) ==
    IF allocate_result(length, ret) = "Ok"
    THEN pbuf_alloc(hp, ret, length, addr)
    ELSE hp

allocate(length, ret, addr) ==
    /\ ~halted
    /\ ret # 0 => CanHold
    /\ LET res == allocate_result(length, ret)
           ok == res = "Ok"
       IN  /\ heap' = allocate_heap(heap, length, ret, addr)
           /\ handle' = IF ok THEN Made(handle, ret, "uninit") ELSE handle
           /\ last' = Op("allocate", res, IF ok THEN ret ELSE 0,
                         allocate_calls(length), length, 0, <<>>)
    /\ UNCHANGED <<raw, halted>>

\* an allocation size without the padding
padded_size_unpadded(size, align) == size

\* allocate_layout: the allocation size padded for the worst case
padded_size(size, align) == size + align

\* PbufUninit::allocate_layout
allocate_layout(size, align, ret, addr) ==
    /\ ~halted
    /\ ret # 0 => CanHold
    /\ LET alloc_size == padded_size(size, align)
           res == allocate_result(alloc_size, ret)
           hp1 == allocate_heap(heap, alloc_size, ret, addr)
       IN
       IF res # "Ok"
       THEN /\ heap' = hp1
            /\ handle' = handle
            /\ halted' = halted
            /\ last' = Op("allocate_layout", res, 0,
                          allocate_calls(alloc_size), size, align, <<>>)
       ELSE
         LET adjust == align_offset(hp1[ret].payload, align)
             status == remove_header_status(hp1, ret, adjust)
             hp2 == pbuf_remove_header(hp1, ret, adjust)
             hp3 == pbuf_realloc(hp2, ret, AsU16(size))
         IN
         IF status # 0
         THEN \* the assertion fails: the panic unwinds and drops pbuf, or
              \* the process aborts
              \E abort \in BOOLEAN :
                /\ halted' = abort
                /\ heap' = IF abort THEN hp2 ELSE DropPtr(hp2, ret)
                /\ handle' = IF abort THEN Made(handle, ret, "uninit")
                             ELSE handle
                /\ last' = [Op("allocate_layout", "panic", ret,
                                <<"pbuf_alloc", "pbuf_remove_header">>
                                  \o (IF abort THEN <<>> ELSE <<"pbuf_free">>),
                                size, align, <<>>)
                             EXCEPT !.adjust = adjust]
         ELSE /\ heap' = hp3
              /\ handle' = Made(handle, ret, "uninit")
              /\ halted' = halted
              /\ last' = [Op("allocate_layout", "Ok", ret,
                              <<"pbuf_alloc", "pbuf_remove_header",
                                "pbuf_realloc">>,
                              size, align, <<>>)
                           EXCEPT !.adjust = adjust]
    /\ UNCHANGED raw

\* PbufUninit::assume_init: the same handle, as Unique Access.
assume_init(s) ==
    /\ ~halted
    /\ handle[s]["uninit"] > 0
    /\ handle' = Rewrapped(handle, s, "uninit", "mut")
    /\ last' = Op("assume_init", "PbufMut", s, <<>>, 0, 0, <<>>)
    /\ UNCHANGED <<heap, raw, halted>>

\* a fill that stops one byte short
write_bytes_short(d, n) ==
    IF n = 0 THEN d ELSE Cat(Fill(n - 1, 0), DropBytes(d, n - 1))

\* ptr::write_bytes(dst, 0, n) on the payload memory
write_bytes(d, n) == Cat(Fill(n, 0), DropBytes(d, n))

\* ptr::copy(src, dst, n) on the payload memory
copy(src, d, n) == Cat(TakeBytes(src, n), DropBytes(d, n))

\* PbufUninit::zeroed
zeroed(s) ==
    /\ ~halted
    /\ handle[s]["uninit"] > 0
    /\ heap' = [heap EXCEPT ![s].data = write_bytes(@, PbufLen(s))]
    /\ handle' = Rewrapped(handle, s, "uninit", "mut")
    /\ last' = Op("zeroed", "PbufMut", s, <<>>, 0, 0, <<>>)
    /\ UNCHANGED <<raw, halted>>

\* copied_from_slice whose failed assertion unwinds past a forgotten handle
copied_from_slice_forgets(s, slice) ==
    /\ ~halted
    /\ handle[s]["uninit"] > 0
    /\ IF ByteLen(slice) # PbufLen(s)
       THEN \E abort \in BOOLEAN :
              /\ halted' = abort
              /\ heap' = heap
              /\ handle' = IF abort THEN handle
                           ELSE Gone(handle, s, "uninit")
              /\ last' = Op("copied_from_slice", "panic", s, <<>>,
                            0, 0, slice)
       ELSE /\ heap' = [heap EXCEPT ![s].data = copy(slice, @, PbufLen(s))]
            /\ handle' = Rewrapped(handle, s, "uninit", "mut")
            /\ halted' = halted
            /\ last' = Op("copied_from_slice", "PbufMut", s, <<>>,
                          0, 0, slice)
    /\ UNCHANGED raw

\* copied_from_slice without the length assertion: copies what fits
copied_from_slice_unchecked(s, slice) ==
    /\ ~halted
    /\ handle[s]["uninit"] > 0
    /\ heap' = [heap EXCEPT
                  ![s].data = Cat(TakeBytes(slice, PbufLen(s)),
                                  DropBytes(@, ByteLen(TakeBytes(slice, PbufLen(s)))))]
    /\ handle' = [handle EXCEPT ![s]["uninit"] = @ - 1, ![s]["mut"] = @ + 1]
    /\ last' = Op("copied_from_slice", "PbufMut", s, <<>>, 0, 0, slice)
    /\ UNCHANGED <<raw, halted>>

\* PbufUninit::copied_from_slice
copied_from_slice(s, slice) ==
    /\ ~halted
    /\ handle[s]["uninit"] > 0
    /\ IF ByteLen(slice) # PbufLen(s)
       THEN \* the assertion fails: the panic unwinds and drops self, or the
            \* process aborts
            \E abort \in BOOLEAN :
              /\ halted' = abort
              /\ heap' = IF abort THEN heap ELSE DropPtr(heap, s)
              /\ handle' = IF abort THEN handle
                           ELSE Gone(handle, s, "uninit")
              /\ last' = Op("copied_from_slice", "panic", s,
                            IF abort THEN <<>> ELSE <<"pbuf_free">>,
                            0, 0, slice)
       ELSE /\ heap' = [heap EXCEPT ![s].data = copy(slice, @, PbufLen(s))]
            /\ handle' = Rewrapped(handle, s, "uninit", "mut")
            /\ halted' = halted
            /\ last' = Op("copied_from_slice", "PbufMut", s, <<>>,
                          0, 0, slice)
    /\ UNCHANGED raw

\* ---------------------------------------------------------- foreign code
\* lengths of the segments foreign code allocates
FfiLens == {2}

\* Foreign code (the network stack) allocates a segment and holds its one
\* counted unit through a raw pointer, which it may hand to new_from_ffi or
\* lend to ref_from_ffi.
ffi_alloc(len, addr) ==
    /\ ~halted
    /\ FreshSegs # {}
    /\ heap' = [pbuf_alloc(heap, FreshSeg, len, addr) EXCEPT
                  ![FreshSeg].data = Fill(len, 1)]
    /\ raw' = [raw EXCEPT ![FreshSeg] = 1]
    /\ last' = Op("ffi_alloc", "Ok", FreshSeg, <<"pbuf_alloc">>, len, 0, <<>>)
    /\ UNCHANGED <<handle, halted>>

\* Foreign code releases a unit it holds.
ffi_free(s) ==
    /\ ~halted
    /\ raw[s] > 0
    /\ heap' = pbuf_free(heap, s)
    /\ raw' = [raw EXCEPT ![s] = @ - 1]
    /\ last' = Op("ffi_free", "Ok", s, <<"pbuf_free">>, 0, 0, <<>>)
    /\ UNCHANGED <<handle, halted>>

\* ------------------------------------------------------ specification
Next ==
    \/ \E s \in Segs : new(s)
    \/ \E s \in Segs : ref_from_ffi(s)
    \/ \E s \in Segs : new_ref(s)
    \/ \E s \in Segs : clone(s)
    \/ \E s \in Segs : into_raw(s)
    \/ \E s \in Segs, k \in Kinds : drop(s, k)
    \/ \E s \in Segs : from_ptr(s)
    \/ \E s \in Segs : try_from_ptr(s)
    \/ \E n \in AllocLens, ret \in AllocReturns :
         \E a \in AllocAddrs(ret) : allocate(n, ret, a)
    \/ \E l \in Layouts, ret \in AllocReturns :
         \E a \in AllocAddrs(ret) : allocate_layout(l[1], l[2], ret, a)
    \/ \E s \in Segs : assume_init(s)
    \/ \E s \in Segs : zeroed(s)
    \/ \E s \in Segs, sl \in Slices : copied_from_slice(s, sl)
    \/ \E n \in FfiLens : ffi_alloc(n, 4096)
    \/ \E s \in Segs : ffi_free(s)

Spec == Init /\ [][Next]_vars

\* PbufPtr::new_ref on the pointer borrowed from a Unique Access through its
\* Deref to &Pbuf: a second owner beside the unique one.
new_ref_mut(s) ==
    /\ ~halted
    /\ handle[s]["mut"] > 0
    /\ NewRef("new_ref", s)

\* A program that works on its own allocations and duplicates handles with
\* new_ref on any pointer it can borrow, that of a Unique Access included.
NextRaw ==
    \/ \E n \in AllocLens, ret \in AllocReturns :
         \E a \in AllocAddrs(ret) : allocate(n, ret, a)
    \/ \E s \in Segs : zeroed(s)
    \/ \E s \in Segs : assume_init(s)
    \/ \E s \in Segs : new_ref_mut(s)
    \/ \E s \in Segs : new_ref(s)
    \/ \E s \in Segs : clone(s)
    \/ \E s \in Segs : from_ptr(s)
    \/ \E s \in Segs : try_from_ptr(s)
    \/ \E s \in Segs, k \in Kinds : drop(s, k)

SpecRaw == Init /\ [][NextRaw]_vars

\* ------------------------------------------------ concurrent use
\* Pbuf is Send and Sync, so handles of one segment may be used from several
\* threads. try_from_ptr is then two steps: the read of ref_ ...
try_from_ptr_read(s) ==
    /\ ~halted
    /\ handle[s]["ptr"] > 0
    /\ LET seen == IF heap[s].ref = 1 THEN "chk1" ELSE "chkN" IN
       /\ handle' = Rewrapped(handle, s, "ptr", seen)
       /\ last' = Op("try_from_ptr_read", seen, s, <<>>, 0, 0, <<>>)
    /\ UNCHANGED <<heap, raw, halted>>

\* a return that looks at ref_ again
try_from_ptr_return_rechecks(s, k) ==
    /\ ~halted
    /\ handle[s][k] > 0
    /\ LET res == IF heap[s].ref = 1 THEN "mut" ELSE "ref" IN
       /\ handle' = Rewrapped(handle, s, k, res)
       /\ last' = Op("try_from_ptr", IF res = "mut" THEN "Ok" ELSE "Err",
                     s, <<>>, 0, 0, <<>>)
    /\ UNCHANGED <<heap, raw, halted>>

\* ... and the return of the wrapper that the value read selects.
try_from_ptr_return(s, k) ==
    /\ ~halted
    /\ handle[s][k] > 0
    /\ LET res == IF k = "chk1" THEN "mut" ELSE "ref" IN
       /\ handle' = Rewrapped(handle, s, k, res)
       /\ last' = Op("try_from_ptr", IF res = "mut" THEN "Ok" ELSE "Err",
                     s, <<>>, 0, 0, <<>>)
    /\ UNCHANGED <<heap, raw, halted>>

\* PbufPtr::new_ref by a thread that holds a bare pointer to the live
\* segment, copied from a handle before that handle was moved away.
new_ref_bare(s) ==
    /\ ~halted
    /\ heap[s].st = "live" /\ Live(s) > 0
    /\ NewRef("new_ref", s)

\* Threads that take ownership of fresh allocations (their own, or one
\* handed over by foreign code) and then only wrap, clone, drop and
\* try_from_ptr their handles; the steps of different threads interleave.
NextConc ==
    \/ \E n \in AllocLens, ret \in AllocReturns :
         \E a \in AllocAddrs(ret) : allocate(n, ret, a)
    \/ \E s \in Segs : assume_init(s)
    \/ \E n \in FfiLens : ffi_alloc(n, 4096)
    \/ \E s \in Segs : new(s)
    \/ \E s \in Segs : from_ptr(s)
    \/ \E s \in Segs : clone(s)
    \/ \E s \in Segs, k \in Kinds : drop(s, k)
    \/ \E s \in Segs : try_from_ptr_read(s)
    \/ \E s \in Segs, k \in InFlight : try_from_ptr_return(s, k)

SpecConc == Init /\ [][NextConc]_vars

\* Threads sharing a segment handed over by foreign code, one of which also
\* duplicates through a bare pointer.
NextRace ==
    \/ \E n \in FfiLens : ffi_alloc(n, 4096)
    \/ \E s \in Segs : new(s)
    \/ \E s \in Segs : clone(s)
    \/ \E s \in Segs, k \in Kinds : drop(s, k)
    \/ \E s \in Segs : try_from_ptr_read(s)
    \/ \E s \in Segs, k \in InFlight : try_from_ptr_return(s, k)
    \/ \E s \in Segs : new_ref_bare(s)

SpecRace == Init /\ [][NextRace]_vars

\* =================================================================
\* Properties
\* =================================================================

\* C1: in every reachable state, a live segment's reference count equals its
\* live owning handles plus the units held through raw pointers; a segment
\* is freed exactly when the count reached zero (once, with no handle or
\* unit left), and no decrement ever hit a freed segment.
RefCountAccounting ==
    \A s \in Segs :
      /\ heap[s].st = "live" =>
            /\ heap[s].ref = Live(s) + raw[s]
            /\ heap[s].ref > 0
            /\ heap[s].frees = 0
      /\ heap[s].st = "freed" =>
            /\ Live(s) = 0 /\ raw[s] = 0
            /\ heap[s].frees = 1
      /\ heap[s].st = "unalloc" => Live(s) = 0 /\ raw[s] = 0
      /\ ~heap[s].uaf

\* C1 witness: three handles were made (new, clone, clone) and one of them
\* was given away by into_raw.
RefCountAccountingWitness ==
    \E s \in Segs :
      /\ last.op = "into_raw"
      /\ heap[s].ref = 3 /\ Live(s) = 2 /\ raw[s] = 1


\* C2: a try_from_ptr step on a handle whose segment has ref_ = 1 returns
\* Ok and turns the handle into a Unique Access; on a segment with ref_ > 1
\* it returns Err, turns the handle into a Shared Access and makes no Unique
\* Access.
TryFromPtrByCount ==
    [][ last'.op = "try_from_ptr" =>
          LET s == last'.seg IN
          /\ heap[s].ref = 1 =>
               /\ last'.res = "Ok"
               /\ handle' = Rewrapped(handle, s, "ptr", "mut")
          /\ heap[s].ref > 1 =>
               /\ last'.res = "Err"
               /\ handle' = Rewrapped(handle, s, "ptr", "ref")
               /\ handle'[s]["mut"] = handle[s]["mut"] ]_vars

\* C2 witness: try_from_ptr has just returned Err on a segment that two
\* handles and a raw unit share.
TryFromPtrByCountWitness ==
    \E s \in Segs :
      /\ last.op = "try_from_ptr" /\ last.res = "Err" /\ last.seg = s
      /\ heap[s].ref = 3 /\ handle[s]["ref"] >= 1 /\ handle[s]["mut"] = 0

\* C3: duplicating a Shared Access's handle (PbufPtr::clone, or new_ref on
\* the pointer a PbufRef derefs to) raises ref_ by exactly one; dropping a
\* Shared Access lowers it by exactly one, freeing the segment at zero; and
\* no operation is ever applied to a freed segment.
SharedCloneDropCount ==
    [][ LET s == last'.seg IN
        /\ last'.op \in {"clone", "new_ref"} =>
             /\ heap'[s].ref = heap[s].ref + 1
             /\ LiveOf(handle', s) = Live(s) + 1
        /\ (last'.op = "drop" /\ last'.res = "ref") =>
             /\ handle'[s]["ref"] = handle[s]["ref"] - 1
             /\ IF heap[s].ref = 1
                THEN heap'[s].st = "freed" /\ heap'[s].ref = 0
                ELSE heap'[s].st = "live" /\ heap'[s].ref = heap[s].ref - 1
        /\ \A f \in Segs :
             heap[f].st = "freed" =>
               /\ last'.seg # f
               /\ heap'[f] = heap[f]
               /\ ~heap'[f].uaf ]_vars

\* C3 witness: a Shared Access was duplicated through new_ref and both
\* handles are live.
SharedCloneDropCountWitness ==
    \E s \in Segs :
      /\ last.op = "new_ref" /\ last.seg = s
      /\ heap[s].ref = 2 /\ handle[s]["ref"] = 1 /\ handle[s]["ptr"] = 1

\* C4: while a Unique Access to a segment is live it is the segment's only
\* owner: ref_ = 1, no other handle and no raw unit of that segment exists.
UniqueIsAlone ==
    \A s \in Segs :
      handle[s]["mut"] > 0 =>
        /\ heap[s].st = "live"
        /\ heap[s].ref = 1
        /\ Live(s) = 1
        /\ raw[s] = 0

\* C4 witness: try_from_ptr granted a Unique Access to a segment that had
\* been shared before (it came from foreign code).
UniqueIsAloneWitness ==
    \E s \in Segs :
      /\ handle[s]["mut"] = 1
      /\ last.op = "try_from_ptr" /\ last.res = "Ok"

\* C5: an allocate step with a requested length above 65535 returns
\* LengthLargerThanU16, calls nothing of the external primitive (no
\* pbuf_alloc), makes no handle and leaves every segment and count alone.
TooLargeAllocatesNothing ==
    [][ (last'.op = "allocate" /\ last'.req > 65535) =>
          /\ last'.res = "LengthLargerThanU16"
          /\ last'.calls = <<>>
          /\ handle' = handle
          /\ heap' = heap
          /\ raw' = raw ]_vars

\* C5 witness: allocate(65536) has just failed as too large.
TooLargeAllocatesNothingWitness ==
    /\ last.op = "allocate" /\ last.req = 65536
    /\ last.res = "LengthLargerThanU16"

\* C6: an allocate step (alone or inside allocate_layout) in which
\* pbuf_alloc was called and returned null returns AllocationFailed, makes
\* no handle, and issues no pbuf_ref and no pbuf_free: every segment and
\* count is as before.
NullAllocationFails ==
    [][ (last'.op \in {"allocate", "allocate_layout"}
           /\ last'.calls # <<>> /\ last'.seg = 0) =>
          /\ last'.res = "AllocationFailed"
          /\ last'.calls = <<"pbuf_alloc">>
          /\ handle' = handle
          /\ heap' = heap
          /\ raw' = raw ]_vars

\* C6 witness: allocate(64) has just failed because pbuf_alloc returned null
\* while a segment was still available.
NullAllocationFailsWitness ==
    /\ last.op = "allocate" /\ last.req = 64
    /\ last.res = "AllocationFailed"
    /\ FreshSegs # {}

\* C7: a zeroed step that immediately follows a successful allocate of
\* length n on the same segment yields a Unique Access whose len is n and
\* whose bytes are n zeros.
AllocateZeroed ==
    [][ (last.op = "allocate" /\ last.res = "Ok"
           /\ last'.op = "zeroed" /\ last'.seg = last.seg) =>
          LET s == last.seg IN
          /\ handle'[s]["mut"] = 1 /\ handle'[s]["uninit"] = 0
          /\ heap'[s].len = last.req
          /\ BytesOf(heap', s) = Fill(last.req, 0) ]_vars

\* C7 witness: the largest length, 65535 bytes, allocated and zeroed.
AllocateZeroedWitness ==
    \E s \in Segs :
      /\ last.op = "zeroed" /\ last.seg = s
      /\ handle[s]["mut"] = 1
      /\ heap[s].len = 65535
      /\ PbufBytes(s) = << <<65535, 0>> >>

\* C8: right after a successful allocate_layout(size, align) the payload
\* address is a multiple of align and len is exactly size.
LayoutAlignedAndSized ==
    (last.op = "allocate_layout" /\ last.res = "Ok") =>
      /\ handle[last.seg]["uninit"] = 1
      /\ heap[last.seg].payload % last.align = 0
      /\ heap[last.seg].len = last.req
      /\ heap[last.seg].tot_len = last.req

\* C8 witness: alignment 4 reached by moving the payload start forward from a
\* misaligned base address, with len 3.
LayoutAlignedAndSizedWitness ==
    /\ last.op = "allocate_layout" /\ last.res = "Ok"
    /\ last.align = 4 /\ last.req = 3
    /\ heap[last.seg].payload = 4100

\* C9: a copied_from_slice step with a slice whose length differs from the
\* allocation's len panics: it makes no Unique Access and writes no byte
\* (the segment's memory is as before, or freed by the unwinding drop of
\* self); with a slice of equal length it yields a Unique Access whose
\* bytes are the slice's.
CopyChecksLength ==
    [][ last'.op = "copied_from_slice" =>
          LET s == last'.seg IN
          IF ByteLen(last'.src) # heap[s].len
          THEN /\ last'.res = "panic"
               /\ handle'[s]["mut"] = handle[s]["mut"]
               /\ heap'[s].st = "freed" \/ heap'[s] = heap[s]
          ELSE /\ last'.res = "PbufMut"
               /\ handle' = Rewrapped(handle, s, "uninit", "mut")
               /\ heap'[s].len = heap[s].len
               /\ BytesOf(heap', s) = last'.src ]_vars

\* C9 witness: a 3-byte slice has just been refused by an allocation of
\* another length, and no Unique Access exists.
CopyChecksLengthWitness ==
    /\ last.op = "copied_from_slice" /\ last.res = "panic"
    /\ last.src = << <<3, 5>> >>
    /\ \A s \in Segs : handle[s]["mut"] = 0

\* C10: end to end.  zeroed right after allocate(64) gives a Unique Access
\* of len 64, 64 zero bytes and ref_ = 1; duplicating the handle of that
\* segment makes ref_ = 2, and try_from_ptr on a handle of it then returns
\* Err (Shared Access) and leaves ref_ = 2; of the two drops that follow,
\* the first leaves the segment live and the second frees it, so the
\* segment is freed exactly once.
Zeroed64(s) ==
    /\ heap[s].st = "live"
    /\ heap[s].len = 64
    /\ PbufBytes(s) = << <<64, 0>> >>

UninitLifecycle ==
    [][ \A s \in Segs :
          LET u == handle[s]["uninit"]
              v == handle'[s]["uninit"]
          IN
          /\ v > u =>
                /\ last'.op \in {"allocate", "allocate_layout"}
                /\ last'.res = "Ok" /\ last'.seg = s
                /\ heap[s].st = "unalloc"
                /\ handle' = Made(handle, s, "uninit")
          /\ v < u =>
                \/ /\ last'.op \in {"zeroed", "copied_from_slice",
                                    "assume_init"}
                   /\ last'.res = "PbufMut"
                   /\ handle' = Rewrapped(handle, s, "uninit", "mut")
                \/ /\ last'.op = "drop" \/ last'.res = "panic"
                   /\ handle' = Gone(handle, s, "uninit")
          /\ v > 0 => v = 1 /\ LiveOf(handle', s) = 1 /\ raw'[s] = 0
          /\ handle'[s]["ref"] > handle[s]["ref"] => v = u
          /\ heap[s].st # "unalloc" => v <= u
      ]_vars

\* C11 witness: a PbufUninit made by allocate_layout was promoted by
\* copied_from_slice and is now the segment's Unique Access.
UninitLifecycleWitness ==
    \E s \in Segs :
      /\ last.op = "copied_from_slice" /\ last.res = "PbufMut"
      /\ last.seg = s
      /\ handle[s]["mut"] = 1 /\ handle[s]["uninit"] = 0
      /\ heap[s].payload % 4 = 0 /\ heap[s].len = 3

\* C13: a try_from_ptr step only rewraps the handle it was given: it makes no
\* call to the external primitive, leaves the whole heap (the segment's ref_,
\* its liveness, its memory) and the raw units as they were, and the segment
\* has as many handles after as before; on a segment with ref_ > 1 the
\* handle comes back as a Shared Access of the same segment, on ref_ = 1 as a
\* Unique Access of it.
TryFromPtrOnlyRewraps ==
    [][ last'.op = "try_from_ptr" =>
          LET s == last'.seg IN
          /\ s \in Segs
          /\ last'.calls = <<>>
          /\ heap' = heap /\ raw' = raw
          /\ heap'[s].st = "live" /\ heap'[s].frees = 0
          /\ LiveOf(handle', s) = LiveOf(handle, s)
          /\ \A t \in Segs \ {s} : handle'[t] = handle[t]
          /\ heap[s].ref > 1 =>
                /\ last'.res = "Err"
                /\ handle' = Rewrapped(handle, s, "ptr", "ref")
          /\ heap[s].ref = 1 =>
                /\ last'.res = "Ok"
                /\ handle' = Rewrapped(handle, s, "ptr", "mut")
      ]_vars

\* C13 witness: try_from_ptr refused a handle of a segment with three counted
\* units and handed it back as a Shared Access; the count is still three.
TryFromPtrOnlyRewrapsWitness ==
    \E s \in Segs :
      /\ last.op = "try_from_ptr" /\ last.res = "Err" /\ last.seg = s
      /\ handle[s]["ref"] >= 1
      /\ heap[s].st = "live" /\ heap[s].ref = 3

\* C14: whenever allocate_layout got as far as pbuf_remove_header, the call
\* returned 0 and the function went on to return Ok: the offset it passed is
\* smaller than the alignment, hence no larger than the size + alignment
\* bytes it had allocated; no allocate_layout ever ended in a panic.
RemoveHeaderNeverFails ==
    last.op = "allocate_layout" =>
      /\ last.res # "panic"
      /\ Len(last.calls) >= 2 =>
            /\ last.calls[2] = "pbuf_remove_header"
            /\ last.res = "Ok"
            /\ last.adjust >= 0
            /\ last.adjust < last.align
            /\ last.adjust <= padded_size(last.req, last.align)

\* C14 witness: allocate_layout of a zero-sized layout with alignment 4 on a
\* payload one past an aligned address advanced the payload by 3 of the 4
\* bytes allocated.
RemoveHeaderNeverFailsWitness ==
    /\ last.op = "allocate_layout" /\ last.res = "Ok"
    /\ last.req = 0 /\ last.align = 4 /\ last.adjust = 3
    /\ last.seg \in Segs /\ handle[last.seg]["uninit"] = 1

\* C16: an into_raw step takes a handle away and a new step makes one, each
\* without a call to the external primitive and with the heap (ref_ and
\* liveness of every segment) unchanged, the counted unit passing to and from
\* the raw pointer; new straight after into_raw on the same segment leaves a
\* handle to that live segment with the count it had; new_ref on the raw
\* pointer straight after into_raw raises the count by one, and when that
\* pointer holds the only raw unit the count is then one more than the
\* segment's live handles.
IntoRawNewRoundTrip ==
    [][ /\ last'.op = "into_raw" =>
              LET s == last'.seg IN
              /\ last'.calls = <<>> /\ heap' = heap
              /\ heap'[s].st = "live"
              /\ handle' = Gone(handle, s, "ptr")
              /\ raw'[s] = raw[s] + 1
        /\ last'.op = "new" =>
              LET s == last'.seg IN
              /\ last'.calls = <<>> /\ heap' = heap
              /\ handle' = Made(handle, s, "ptr")
              /\ raw'[s] = raw[s] - 1
        /\ (last.op = "into_raw" /\ last'.op = "new"
              /\ last'.seg = last.seg) =>
              LET s == last'.seg IN
              /\ heap'[s].st = "live"
              /\ heap'[s].ref = heap[s].ref
              /\ handle'[s]["ptr"] >= 1
              /\ heap'[s].ref = LiveOf(handle', s) + raw'[s]
        /\ (last.op = "into_raw" /\ last'.op = "ref_from_ffi"
              /\ last'.seg = last.seg) =>
              LET s == last'.seg IN
              /\ heap'[s].st = "live"
              /\ heap'[s].ref = heap[s].ref + 1
              /\ raw'[s] = 1 => heap'[s].ref = LiveOf(handle', s) + 1
      ]_vars

\* C16 witness: a handle was rebuilt by new from one of two raw units, the
\* second of which only into_raw can have produced; the segment is live with
\* two handles, one raw unit and count three.
IntoRawNewRoundTripWitness ==
    \E s \in Segs :
      /\ last.op = "new" /\ last.seg = s
      /\ raw[s] = 1 /\ Live(s) = 2 /\ handle[s]["ptr"] = 2
      /\ heap[s].st = "live" /\ heap[s].ref = 3

\* C18: an allocate_layout step fails with LengthLargerThanU16 exactly when
\* size + alignment exceeds 65535, whether or not size alone fits; it then
\* makes no call to the external primitive and changes neither heap nor
\* handles; when it returns Ok, size is at most 65535, `size as u16` is size,
\* and the segment's length is size.
LayoutValidatesPaddedSize ==
    [][ last'.op = "allocate_layout" =>
          LET size == last'.req
              align == last'.align
          IN
          /\ last'.res = "LengthLargerThanU16" <=> size + align > U16Max
          /\ size + align > U16Max =>
                /\ last'.calls = <<>>
                /\ heap' = heap /\ handle' = handle /\ raw' = raw
          /\ last'.res = "Ok" =>
                /\ size <= U16Max
                /\ AsU16(size) = size
                /\ heap'[last'.seg].len = size
      ]_vars

\* C18 witness: allocate_layout of size 65535 with alignment 1 failed with
\* LengthLargerThanU16 without calling the allocator, although 65535 fits.
LayoutValidatesPaddedSizeWitness ==
    /\ last.op = "allocate_layout" /\ last.res = "LengthLargerThanU16"
    /\ last.req = 65535 /\ last.align = 1 /\ FitsU16(last.req)
    /\ last.calls = <<>>

\* C19: after an allocate_layout step that returned Ok, the payload window
\* [payload, payload + size) lies inside the window [base, base + size +
\* alignment) that pbuf_alloc returned, base being the payload start before
\* the advance; the offset plus size does not exceed the padded length; the
\* length left by pbuf_remove_header, size + alignment - offset, is greater
\* than size, and pbuf_realloc brings the reported length down to size.
LayoutWindowInside ==
    [][ (last'.op = "allocate_layout" /\ last'.res = "Ok") =>
          LET s == last'.seg
              size == last'.req
              cap == padded_size(size, last'.align)
              adjust == last'.adjust
              base == heap'[s].payload - adjust
              hp1 == pbuf_alloc(heap, s, cap, base)
              hp2 == pbuf_remove_header(hp1, s, adjust)
          IN
          /\ base \in PayloadAddrs
          /\ base <= heap'[s].payload
          /\ heap'[s].payload + size <= base + cap
          /\ adjust + size <= cap
          /\ hp2[s].len = cap - adjust
          /\ hp2[s].len > size
          /\ heap' = pbuf_realloc(hp2, s, size)
          /\ heap'[s].len = size /\ heap'[s].len < hp2[s].len
          /\ ByteLen(heap'[s].data) >= size
      ]_vars

\* C19 witness: allocate_layout of 65531 bytes with alignment 4 on a payload
\* one past an aligned address: 65535 bytes allocated, advanced by 3, shrunk
\* from 65532 to 65531.
LayoutWindowInsideWitness ==
    \E s \in Segs :
      /\ last.op = "allocate_layout" /\ last.res = "Ok" /\ last.seg = s
      /\ last.req = 65531 /\ last.align = 4 /\ last.adjust = 3
      /\ heap[s].payload = 4100 /\ heap[s].len = 65531

\* C15: a step in which copied_from_slice or allocate_layout panics and the
\* panic unwinds out of the function destroys the PbufUninit with exactly one
\* pbuf_free: the segment, whose count was 1, is freed, once, and no handle
\* to it is left; when the panic instead aborts, the program has ended and
\* nothing was released, so never twice. A zeroed, copied_from_slice or
\* assume_init step that returns a Unique Access moves the handle into it
\* with no call to the external primitive and the count still 1.
ReleaseOncePerExit ==
    [][ /\ (last'.op \in {"copied_from_slice", "allocate_layout"}
              /\ last'.res = "panic") =>
              LET s == last'.seg IN
              IF halted'
              THEN /\ "pbuf_free" \notin {last'.calls[i] :
                                            i \in DOMAIN last'.calls}
                   /\ heap'[s].st = "live" /\ heap'[s].frees = 0
              ELSE /\ Cardinality({i \in DOMAIN last'.calls :
                                     last'.calls[i] = "pbuf_free"}) = 1
                   /\ heap'[s].st = "freed" /\ heap'[s].frees = 1
                   /\ ~heap'[s].uaf
                   /\ LiveOf(handle', s) = 0 /\ raw'[s] = 0
                   /\ last'.op = "copied_from_slice" =>
                         /\ heap[s].ref = 1
                         /\ handle' = Gone(handle, s, "uninit")
        /\ (last'.op \in {"zeroed", "copied_from_slice", "assume_init"}
              /\ last'.res = "PbufMut") =>
              LET s == last'.seg IN
              /\ last'.calls = <<>>
              /\ handle' = Rewrapped(handle, s, "uninit", "mut")
              /\ heap'[s].st = "live" /\ heap'[s].frees = 0
              /\ heap'[s].ref = heap[s].ref /\ heap'[s].ref = 1
      ]_vars

\* C15 witness: copied_from_slice panicked on a slice of the wrong length,
\* the panic unwound, and the segment is freed, once, with no handle left.
ReleaseOncePerExitWitness ==
    \E s \in Segs :
      /\ last.op = "copied_from_slice" /\ last.res = "panic"
      /\ last.seg = s /\ ~halted
      /\ last.calls = <<"pbuf_free">>
      /\ heap[s].st = "freed" /\ heap[s].frees = 1 /\ Live(s) = 0

\* C12: the exclusivity check is a snapshot. The read step of try_from_ptr
\* selects the outcome by the value of ref_ in the state it reads, and the
\* return step grants Unique Access on a read of 1 and Shared Access
\* otherwise, whatever ref_ has become in between; neither step changes the
\* heap. (The witness is the interleaving the claim asserts to exist.)
CheckIsSnapshot ==
    [][ /\ last'.op = "try_from_ptr_read" =>
              LET s == last'.seg IN
              /\ heap' = heap
              /\ last'.res = (IF heap[s].ref = 1 THEN "chk1" ELSE "chkN")
              /\ handle' = Rewrapped(handle, s, "ptr", last'.res)
        /\ last'.op = "try_from_ptr" =>
              LET s == last'.seg IN
              /\ heap' = heap
              /\ \/ /\ last'.res = "Ok"
                    /\ handle' = Rewrapped(handle, s, "chk1", "mut")
                 \/ /\ last'.res = "Err"
                    /\ handle' = Rewrapped(handle, s, "chkN", "ref")
      ]_vars

\* C12 witness: try_from_ptr read ref_ = 1, another thread's new_ref on a
\* bare pointer raised it to 2, and try_from_ptr then returned Ok: a Unique
\* Access is live beside another handle of the same segment, with ref_ = 2.
CheckIsSnapshotWitness ==
    \E s \in Segs :
      /\ last.op = "try_from_ptr" /\ last.res = "Ok" /\ last.seg = s
      /\ handle[s]["mut"] = 1 /\ handle[s]["ptr"] = 1
      /\ heap[s].st = "live" /\ heap[s].ref = 2

\* C17: with handles obtained only by taking ownership of a fresh allocation
\* or by duplicating a handle, in every state of every interleaving of
\* clone, drop and the two steps of try_from_ptr: a try_from_ptr that has
\* read ref_ = 1 holds the segment's only handle, and a Unique Access is the
\* segment's only handle, with ref_ = 1 and no raw unit; so none exists when
\* it is granted and none appears while it is live.
UniqueAloneUnderInterleaving ==
    \A s \in Segs :
      (handle[s]["mut"] > 0 \/ handle[s]["chk1"] > 0) =>
        /\ handle[s]["mut"] + handle[s]["chk1"] = 1
        /\ Live(s) = 1
        /\ raw[s] = 0
        /\ heap[s].st = "live" /\ heap[s].ref = 1

\* C17 witness: a segment handed over by foreign code (length 2), whose
\* handles were cloned and dropped, has a Unique Access granted by the
\* return step of try_from_ptr.
UniqueAloneUnderInterleavingWitness ==
    \E s \in Segs :
      /\ last.op = "try_from_ptr" /\ last.res = "Ok" /\ last.seg = s
      /\ handle[s]["mut"] = 1 /\ heap[s].len = 2

====
